---- MODULE Spec2Model ----
(***************************************************************************)
(* Bladerunner experiment execution engine: the test_cases job table of    *)
(* db.py, the store operations on it (claim / start / complete / fail),    *)
(* and the ExperimentRunner of runner.py that drains pending jobs.         *)
(*                                                                         *)
(* Every worker is one process with its own pyodbc connection (db.py's     *)
(* singleton), opened with pyodbc's default autocommit=False: a statement  *)
(* run through Database.execute is committed by execute itself, a          *)
(* statement run through Database.query / query_one stays uncommitted      *)
(* (its row locks held) until the next commit on that connection.          *)
(***************************************************************************)
EXTENDS Naturals, Integers, Sequences, FiniteSets, TLC

\* ------------------------------------------------------------------ bounds
NumJobs == 2
NumQuestions == 2

\* ------------------------------------------------------- program constants
\* fail_test_case: status = 'retry' if attempts < 3 else 'failed'
RetryLimit == 3

Ids == 1 .. NumJobs
Workers == {"w1", "w2"}
NULL == "NULL"
None == 0

\* Registries the runner resolves a job's string keys against.
\* clients/__init__.py _PROVIDERS
KnownProviders == {"claude", "openai", "deepseek", "gemini", "xai"}
\* instruments/__init__.py _INSTRUMENTS
KnownInstruments == {"levenson", "bfi", "dark_triad", "phq9", "gad7", "phq6_bc", "phq3_a"}
\* input_systems/__init__.py _SYSTEMS
KnownInputSystems == {"ocean_direct", "narrative", "hexaco", "behavioral", "scenario", "exemplar"}
\* An instrument whose catalog holds no question: get_questions() returns [],
\* scored by the normalize of levenson, bfi and dark_triad. None of the seven
\* registered instruments is one; it is resolved like them.
EmptyInstrument == "empty"
\* cli.get_api_keys: the providers whose environment variable is set
ApiKeys == {"deepseek", "claude", "hal9000"}

\* The (provider, instrument, input_system) keys a test_cases row may carry:
\* one resolvable job, and one job per way resolution can fail.
JobKeys ==
    { [provider |-> "deepseek", instrument |-> "levenson", input_system |-> "ocean_direct"],
      [provider |-> "gemini",   instrument |-> "levenson", input_system |-> "ocean_direct"],
      [provider |-> "hal9000",  instrument |-> "levenson", input_system |-> "ocean_direct"],
      [provider |-> "deepseek", instrument |-> "rorschach", input_system |-> "ocean_direct"],
      [provider |-> "deepseek", instrument |-> "levenson", input_system |-> "astrology"] }

\* The provider arguments claim_test_case is called with.
ClaimProviders == {"deepseek", "gemini"}

\* A row as "INSERT INTO test_cases (...)" of create_experiment leaves it:
\* every column it does not name takes its default.
NewRow(k) ==
    [ provider |-> k.provider, instrument |-> k.instrument, input_system |-> k.input_system,
      status |-> "pending", attempts |-> 0, worker_id |-> NULL, locked_at |-> NULL,
      started_at |-> NULL, completed_at |-> NULL, error_message |-> NULL,
      prompt_sent |-> NULL ]

VARIABLES
    test_cases,   \* table test_cases: id -> row (the current row versions)
    results,      \* table results: id -> number of Result rows of that test case
    responses,    \* table responses: id -> its Response rows, in insert order
    experiment,   \* table experiments: the row of the one experiment
    xlock,        \* id -> connection holding an exclusive row lock (uncommitted write)
    undo,         \* worker -> pre-images of the rows its open transaction wrote
    pc,           \* worker -> position in its code
    cur,          \* worker -> test case it works on (None: no row)
    arg,          \* worker -> provider argument of its claim_test_case call
    attempts_read,\* worker -> attempts value fail_test_case selected
    pending,      \* worker -> the runner's snapshot list of pending test cases
    idx,          \* worker -> position of the runner's loop in pending
    qn,           \* worker -> seq_position of the question loop (1-based)
    exc,          \* worker -> str(e) of the exception run_test_case caught
    of_experiment,\* worker -> its runner was started by run_experiment (not run_pending)
    hist,         \* id -> the statuses the row went through, kept as long as every
                  \*       attempt on the job ended in a retryable failure, << >>
                  \*       from then on (history)
    longitudinal, \* worker -> config.longitudinal of its runner
    messages,     \* worker -> run_test_case's conversation history
    local_responses, \* worker -> run_test_case's dict question number -> score
    result,       \* worker -> the CompletionResult of the last provider call
    result_rows,  \* table results: id -> the rows insert_result of the runner wrote
    provider_texts, \* the texts the provider answers a request with
    calls,        \* worker -> the requests of the current run_test_case and the
                  \*           texts they were answered with (history)
    text,         \* the argument of a call of _parse_digit
    parsed,       \* what that call returned or raised
    now,          \* time.monotonic(), in ticks
    last_request, \* RateLimiter.last_request
    lock,         \* RateLimiter._lock: the task inside "async with", or NULL
    tpc,          \* task -> position in complete / complete_with_messages
    wake_at,      \* task -> the time its asyncio.sleep ends
    start_time,   \* task -> start_time of complete / complete_with_messages
    latency,      \* task -> result.latency_ms of its last finished call
    min_interval, \* RateLimiter.min_interval = 60.0 / requests_per_minute, in ticks
    call_log,     \* task -> when its current call of complete entered, was granted
                  \*         acquire, and started its vendor call (history)
    last_grant,   \* the time acquire was last granted at, -1 before (history)
    reads,        \* the number of acquire calls that computed their wait from
                  \* the current last_request value (history)
    create_args,  \* the arguments of a call of create_experiment
    create_pc,    \* that call: "none", "called", "returned" or "raised"
    experiments,  \* table experiments: the ids of its rows
    inserted,     \* table test_cases: the rows create_experiment inserted
    clients,      \* worker -> ExperimentRunner._clients: provider -> its client
    clients_created \* worker -> provider -> the number of clients its runner
                  \*           created for that provider (history)

vars == << test_cases, results, responses, experiment, xlock, undo, pc, cur, arg,
           attempts_read, pending, idx, qn, exc, of_experiment, hist,
           longitudinal, messages, local_responses, result, result_rows,
           provider_texts, calls, text, parsed, now, last_request, lock, tpc,
           wake_at, start_time, latency, min_interval, call_log, last_grant, reads,
           create_args, create_pc, experiments, inserted, clients, clients_created >>

store_vars == << test_cases, results, responses, experiment, xlock, undo, hist >>
runner_locals == << pending, idx, qn, exc, of_experiment >>
loop_locals == << longitudinal, messages, local_responses, result >>
loop_history == << result_rows, provider_texts, calls >>
parse_vars == << text, parsed >>
limiter_vars == << now, last_request, lock, tpc, wake_at, start_time, latency,
                   min_interval, call_log, last_grant, reads >>
\* What the store operations and the runner's loop over pending do not touch.
create_vars == << create_args, create_pc, experiments, inserted >>
client_cache == << clients, clients_created >>
client_side == << loop_locals, loop_history, parse_vars, limiter_vars, create_vars,
                  client_cache >>

\* The tasks that call one client concurrently.
Tasks == {"t1", "t2"}

\* A CompletionResult before any call returned one.
NoResult == [text |-> << >>, prompt_tokens |-> None]

\* What a call of _parse_digit returned (value) or that it raised; value 0
\* stands for no call made.
NotParsed == [raised |-> FALSE, value |-> 0]

\* A call of complete that has not begun.
NoCall == [method |-> NULL, entered |-> -1, granted |-> -1, started |-> -1]

\* The RateLimiter and the tasks of its client, after construction.
InitLimiter ==
    /\ now = 0
    /\ min_interval = 1
    /\ last_request = 0
    /\ lock = NULL
    /\ tpc = [t \in Tasks |-> "idle"]
    /\ wake_at = [t \in Tasks |-> 0]
    /\ start_time = [t \in Tasks |-> 0]
    /\ latency = [t \in Tasks |-> 0]
    /\ call_log = [t \in Tasks |-> NoCall]
    /\ last_grant = -1
    /\ reads = 0

\* No call of _parse_digit made.
InitParse ==
    /\ text = << >>
    /\ parsed = NotParsed

\* No client cached for a provider.
NoClient == [provider |-> NULL, serial |-> 0]

\* create_experiment not called by this process: the one experiment and its
\* test cases exist.
NoCreate ==
    /\ create_args = NULL
    /\ create_pc = "none"
    /\ experiments = {1}
    /\ inserted = << >>

\* The tables after create_experiment, and workers that have not started.
InitTables ==
    /\ results = [r \in Ids |-> 0]
    /\ responses = [r \in Ids |-> << >>]
    /\ result_rows = [r \in Ids |-> << >>]
    /\ experiment = [status |-> "pending", started_at |-> NULL, completed_at |-> NULL]
    /\ xlock = [r \in Ids |-> NULL]
    /\ undo = [w \in Workers |-> {}]
    /\ pc = [w \in Workers |-> "idle"]
    /\ cur = [w \in Workers |-> None]
    /\ arg = [w \in Workers |-> NULL]
    /\ attempts_read = [w \in Workers |-> 0]
    /\ pending = [w \in Workers |-> << >>]
    /\ idx = [w \in Workers |-> 0]
    /\ qn = [w \in Workers |-> 0]
    /\ exc = [w \in Workers |-> NULL]
    /\ of_experiment = [w \in Workers |-> FALSE]
    /\ hist = [r \in Ids |-> << "pending" >>]
    /\ messages = [w \in Workers |-> << >>]
    /\ local_responses = [w \in Workers |-> << >>]
    /\ result = [w \in Workers |-> NoResult]
    /\ calls = [w \in Workers |-> << >>]
    /\ clients = [w \in Workers |-> [p \in KnownProviders |-> NoClient]]
    /\ clients_created = [w \in Workers |-> [p \in KnownProviders |-> 0]]

\* Workers in independent mode (the default of RunnerConfig) against a
\* provider that answers every request with "4".
Init ==
    /\ test_cases \in [Ids -> {NewRow(k) : k \in JobKeys}]
    /\ InitTables
    /\ longitudinal = [w \in Workers |-> FALSE]
    /\ provider_texts = { << "4" >> }
    /\ InitParse
    /\ InitLimiter
    /\ NoCreate

\* ------------------------------------------------------------ transactions

\* A statement that reads or writes row r waits while another connection holds
\* an exclusive lock on it (READ COMMITTED, no hint).
Blocked(w, r) == xlock[r] \notin {NULL, w}

\* Mutant of CommitLocks: a commit that releases no lock.
CommitKeepsLocks(w) == xlock

\* conn.commit(): the connection's uncommitted writes become durable, its locks go.
CommitLocks(w) == [r \in Ids |-> IF xlock[r] = w THEN NULL ELSE xlock[r]]

\* conn.rollback(), or the server's rollback when the connection is lost: the
\* rows the open transaction wrote get their pre-images back.
RolledBack(w) ==
    [r \in Ids |-> IF \E u \in undo[w] : u.id = r
                   THEN (CHOOSE u \in undo[w] : u.id = r).row
                   ELSE test_cases[r]]

RolledBackHist(w) ==
    [r \in Ids |-> IF \E u \in undo[w] : u.id = r
                   THEN (IF hist[r] = << >> THEN hist[r]
                         ELSE SubSeq(hist[r], 1, Len(hist[r]) - 1))
                   ELSE hist[r]]

\* The history of statuses after row r is set to status s.
Logged(r, s) == [hist EXCEPT ![r] = IF @ = << >> THEN @ ELSE Append(@, s)]

\* The history of a job that something other than a retryable failure happened to.
Unlogged(r) == [hist EXCEPT ![r] = << >>]

\* ---------------------------------------------------------- store: claim

\* Mutants of Eligible: the WHERE clause without its status filter, and without
\* its provider filter.
EligibleAnyStatus(r, provider) == test_cases[r].provider = provider

EligibleAnyProvider(r, provider) == test_cases[r].status \in {"pending", "retry"}

\* WHERE status IN ('pending', 'retry') AND provider = ?
Eligible(r, provider) ==
    /\ test_cases[r].status \in {"pending", "retry"}
    /\ test_cases[r].provider = provider

\* WITH (ROWLOCK, READPAST): rows locked by another connection are skipped,
\* so the statement waits on no row.
ClaimWaits(w) == FALSE

\* What the claim's UPDATE writes to the row it selected.
ClaimedRow(row, w) ==
    [row EXCEPT !.status = "locked", !.locked_at = "utc", !.worker_id = w]

\* claim_test_case(provider, worker_id): the UPDATE TOP(1) ... OUTPUT INSERTED.*
\* statement, run through query_one: one atomic statement, which
\* claim_test_case does not commit. TOP(1) without ORDER BY: any eligible row.
claim_test_case(w) ==
    /\ pc[w] \in {"idle", "empty"}
    /\ ~ClaimWaits(w)
    /\ \E p \in ClaimProviders :
       LET cand == {r \in Ids : Eligible(r, p) /\ ~Blocked(w, r)} IN
        /\ arg' = [arg EXCEPT ![w] = p]
        /\ IF cand = {}
           THEN /\ pc' = [pc EXCEPT ![w] = "empty"]
                /\ cur' = [cur EXCEPT ![w] = None]
                /\ UNCHANGED << test_cases, xlock, undo, hist >>
           ELSE \E r \in cand :
                /\ test_cases' = [test_cases EXCEPT ![r] = ClaimedRow(@, w)]
                /\ xlock' = [xlock EXCEPT ![r] = w]
                /\ undo' = [undo EXCEPT ![w] = @ \cup {[id |-> r, row |-> test_cases[r]]}]
                /\ hist' = Logged(r, "locked")
                /\ pc' = [pc EXCEPT ![w] = "claimed"]
                /\ cur' = [cur EXCEPT ![w] = r]
    /\ UNCHANGED << results, responses, experiment, attempts_read, runner_locals, client_side >>

\* ---------------------------------------------------------- store: start

StartedRow(row) ==
    [row EXCEPT !.status = "running", !.started_at = "utc",
                !.attempts = @ + 1, !.prompt_sent = "prompt"]

\* start_test_case(id, prompt): UPDATE ... WHERE id = ?, then commit.
start_test_case(w) ==
    /\ pc[w] = "claimed"
    /\ ~Blocked(w, cur[w])
    /\ test_cases' = [test_cases EXCEPT ![cur[w]] = StartedRow(@)]
    /\ xlock' = CommitLocks(w)
    /\ undo' = [undo EXCEPT ![w] = {}]
    /\ hist' = Logged(cur[w], "running")
    /\ pc' = [pc EXCEPT ![w] = "started"]
    /\ UNCHANGED << results, responses, experiment, cur, arg, attempts_read, runner_locals, client_side >>

\* ------------------------------------------------------- store: complete

\* What Database.execute leaves of the connection's open transaction.
ExecuteCommits(w) == TRUE

\* First statement of complete_test_case, inside "with db.transaction()":
\* db.execute(UPDATE test_cases SET status = 'complete' ...). execute commits it.
\* When the statement raises, transaction() rolls back and re-raises.
complete_test_case_update(w) ==
    /\ pc[w] = "started"
    /\ ~Blocked(w, cur[w])
    /\ \/ /\ test_cases' = [test_cases EXCEPT ![cur[w]] =
                               [@ EXCEPT !.status = "complete", !.completed_at = "utc"]]
          /\ hist' = Unlogged(cur[w])
          /\ IF ExecuteCommits(w)
             THEN /\ xlock' = CommitLocks(w)
                  /\ undo' = [undo EXCEPT ![w] = {}]
             ELSE /\ xlock' = [xlock EXCEPT ![cur[w]] = w]
                  /\ undo' = [undo EXCEPT ![w] = @ \cup {[id |-> cur[w], row |-> test_cases[cur[w]]]}]
          /\ pc' = [pc EXCEPT ![w] = "completing"]
       \/ /\ test_cases' = RolledBack(w)
          /\ hist' = RolledBackHist(w)
          /\ xlock' = CommitLocks(w)
          /\ undo' = [undo EXCEPT ![w] = {}]
          /\ pc' = [pc EXCEPT ![w] = "complete_raised"]
    /\ UNCHANGED << results, responses, experiment, cur, arg, attempts_read, runner_locals, client_side >>

\* Second statement of complete_test_case: db.execute(INSERT INTO results ...),
\* then the commit of transaction(); or the statement raises and transaction()
\* rolls back what is still uncommitted.
complete_test_case_insert(w) ==
    /\ pc[w] = "completing"
    /\ \/ /\ results' = [results EXCEPT ![cur[w]] = @ + 1]
          /\ xlock' = CommitLocks(w)
          /\ undo' = [undo EXCEPT ![w] = {}]
          /\ pc' = [pc EXCEPT ![w] = "idle"]
          /\ cur' = [cur EXCEPT ![w] = None]
          /\ arg' = [arg EXCEPT ![w] = NULL]
          /\ UNCHANGED << test_cases, hist >>
       \/ /\ test_cases' = RolledBack(w)
          /\ hist' = RolledBackHist(w)
          /\ xlock' = CommitLocks(w)
          /\ undo' = [undo EXCEPT ![w] = {}]
          /\ pc' = [pc EXCEPT ![w] = "complete_raised"]
          /\ UNCHANGED << results, cur, arg >>
    /\ UNCHANGED << responses, experiment, attempts_read, runner_locals, client_side >>

\* ----------------------------------------------------------- store: fail

\* Mutant of FailStatus: a retryable failure always retried.
FailStatusAlwaysRetry(retry, attempts) == IF retry THEN "retry" ELSE "failed"

\* Mutant of FailStatus: the attempts comparison off by one.
FailStatusOffByOne(retry, attempts) ==
    IF retry THEN (IF attempts <= RetryLimit THEN "retry" ELSE "failed") ELSE "failed"

\* status = 'retry' if attempts < 3 else 'failed'   (retry=True)
\* status = 'failed'                                 (retry=False)
FailStatus(retry, attempts) ==
    IF retry THEN (IF attempts < RetryLimit THEN "retry" ELSE "failed") ELSE "failed"

\* Mutant of FailedRow: the UPDATE without "locked_at = NULL, worker_id = NULL".
FailedRowKeepsLock(row, status, message) ==
    [row EXCEPT !.status = status, !.error_message = message]


FailedRow(row, status, message) ==
    [row EXCEPT !.status = status, !.error_message = message,
                !.locked_at = NULL, !.worker_id = NULL]

\* fail_test_case(id, message, retry=True), first half: the SELECT of attempts.
\* A retryable failure is the failure of a started attempt.
fail_test_case_select(w) ==
    /\ pc[w] \in {"started", "complete_raised"}
    /\ ~Blocked(w, cur[w])
    /\ attempts_read' = [attempts_read EXCEPT ![w] = test_cases[cur[w]].attempts]
    /\ pc' = [pc EXCEPT ![w] = "failing"]
    /\ UNCHANGED << store_vars, cur, arg, runner_locals, client_side >>

\* fail_test_case, the UPDATE and its commit: db.execute(UPDATE test_cases SET
\* status = ?, error_message = ?, locked_at = NULL, worker_id = NULL WHERE id = ?).
\* With retry=False (a configuration error, or any failure the caller does not
\* want retried) nothing is selected before it.
fail_test_case_update(w) ==
    /\ pc[w] \in {"failing", "claimed", "started", "complete_raised"}
    /\ ~Blocked(w, cur[w])
    /\ LET retry == (pc[w] = "failing")
           status == FailStatus(retry, attempts_read[w])
           message == IF retry THEN "timeout" ELSE "configuration error" IN
        /\ test_cases' = [test_cases EXCEPT ![cur[w]] = FailedRow(@, status, message)]
        /\ hist' = IF retry THEN Logged(cur[w], status) ELSE Unlogged(cur[w])
    /\ attempts_read' = [attempts_read EXCEPT ![w] = 0]
    /\ xlock' = CommitLocks(w)
    /\ undo' = [undo EXCEPT ![w] = {}]
    /\ pc' = [pc EXCEPT ![w] = "idle"]
    /\ cur' = [cur EXCEPT ![w] = None]
    /\ arg' = [arg EXCEPT ![w] = NULL]
    /\ UNCHANGED << results, responses, experiment, runner_locals, client_side >>

\* ---------------------------------------------------------------- crash

\* The worker process dies (or its connection is lost): the server rolls the
\* connection's open transaction back; the worker does nothing further. With
\* nothing uncommitted a crash changes no table and is the worker taking no
\* further step, which every behaviour already allows.
crash(w) ==
    /\ pc[w] # "crashed"
    /\ undo[w] # {}
    /\ test_cases' = RolledBack(w)
    /\ hist' = RolledBackHist(w)
    /\ xlock' = CommitLocks(w)
    /\ undo' = [undo EXCEPT ![w] = {}]
    /\ pc' = [pc EXCEPT ![w] = "crashed"]
    /\ cur' = [cur EXCEPT ![w] = None]
    /\ arg' = [arg EXCEPT ![w] = NULL]
    /\ attempts_read' = [attempts_read EXCEPT ![w] = 0]
    /\ UNCHANGED << results, responses, experiment, runner_locals, client_side >>

\* ------------------------------------------------- store specification
\* Workers that drive the store by the protocol of the job state machine:
\* claim, then start, then complete or fail.
NextStore ==
    \E w \in Workers :
        \/ claim_test_case(w)
        \/ start_test_case(w)
        \/ complete_test_case_update(w)
        \/ complete_test_case_insert(w)
        \/ fail_test_case_select(w)
        \/ fail_test_case_update(w)
        \/ crash(w)

\* The jobs of the store specification differ in their provider only. The
\* store treats all provider names alike, so the first job's provider is fixed.
StoreJobKeys == {k \in JobKeys : k.instrument = "levenson" /\ k.input_system = "ocean_direct"
                                 /\ k.provider \in {"deepseek", "gemini"}}

InitStore ==
    /\ Init
    /\ test_cases \in [Ids -> {NewRow(k) : k \in StoreJobKeys}]
    /\ test_cases[1].provider = "deepseek"

SpecStore == InitStore /\ [][NextStore]_vars

\* ------------------------------------------- clients/base.py: _parse_digit

\* The length of the response texts _parse_digit is given.
MaxLen == 3

\* The characters of a response text. "sup7" stands for the superscript seven,
\* a character str.isdigit() accepts and int() rejects.
Chars == {"0", "2", "4", "7", "x", " ", ".", "-", "sup7"}

Texts == UNION {[1 .. n -> Chars] : n \in 0 .. MaxLen}

Whitespace == {" "}

Digits == << "0", "1", "2", "3", "4", "5", "6", "7", "8", "9" >>

AsciiDigits == {Digits[i] : i \in 1 .. 10}

DigitValue(c) == (CHOOSE i \in 1 .. 10 : Digits[i] = c) - 1

\* Characters of category No (superscripts, circled digits): isdigit() is True
\* of them and int() raises ValueError.
OtherDigits == {"sup7"}

\* char.isdigit()
isdigit(c) == c \in AsciiDigits \cup OtherDigits

RECURSIVE lstrip(_)
lstrip(s) == IF s # << >> /\ Head(s) \in Whitespace THEN lstrip(Tail(s)) ELSE s

RECURSIVE rstrip(_)
rstrip(s) ==
    IF s # << >> /\ s[Len(s)] \in Whitespace THEN rstrip(SubSeq(s, 1, Len(s) - 1)) ELSE s

\* text.strip()
strip(s) == rstrip(lstrip(s))

\* s.replace(c, "")
RECURSIVE replace(_, _)
replace(s, c) ==
    IF s = << >> THEN << >>
    ELSE IF Head(s) = c THEN replace(Tail(s), c)
    ELSE << Head(s) >> \o replace(Tail(s), c)

RECURSIVE Decimal(_)
Decimal(s) ==
    IF s = << >> THEN 0 ELSE 10 * Decimal(SubSeq(s, 1, Len(s) - 1)) + DigitValue(s[Len(s)])

\* int(s): surrounding whitespace, an optional sign, decimal digits; anything
\* else raises ValueError.
ToInt(s) ==
    LET t == strip(s)
        signed == t # << >> /\ Head(t) \in {"+", "-"}
        body == IF signed THEN Tail(t) ELSE t
    IN IF body # << >> /\ \A i \in 1 .. Len(body) : body[i] \in AsciiDigits
       THEN [raised |-> FALSE,
             value |-> IF signed /\ Head(t) = "-" THEN 0 - Decimal(body) ELSE Decimal(body)]
       ELSE [raised |-> TRUE, value |-> 0]

\* "for char in cleaned: if char.isdigit(): digit = int(char); if 1 <= digit <= 5:
\* return digit", then "return 3". int(char) is outside any try.
RECURSIVE Scan(_)
Scan(s) ==
    IF s = << >> THEN [raised |-> FALSE, value |-> 3]
    ELSE IF isdigit(Head(s))
         THEN (IF ToInt(<< Head(s) >>).raised THEN [raised |-> TRUE, value |-> 0]
               ELSE IF 1 <= DigitValue(Head(s)) /\ DigitValue(Head(s)) <= 5
                    THEN [raised |-> FALSE, value |-> DigitValue(Head(s))]
                    ELSE Scan(Tail(s)))
         ELSE Scan(Tail(s))

\* _parse_digit(text): what it returns, or that it raises.
parse_digit(t) ==
    LET cleaned == replace(replace(strip(t), "."), ",")
        score == ToInt(cleaned)
    IN IF ~score.raised /\ 1 <= score.value /\ score.value <= 5
       THEN [raised |-> FALSE, value |-> score.value]
       ELSE Scan(cleaned)

\* A call of _parse_digit on the response text.
parse_digit_call ==
    /\ parsed = NotParsed
    /\ parsed' = parse_digit(text)
    /\ UNCHANGED << store_vars, pc, cur, arg, attempts_read, runner_locals, loop_locals,
                    loop_history, text, create_vars, client_cache, limiter_vars >>

\* The tables and workers of a process that only uses its client.
InitUnused ==
    /\ test_cases = [r \in Ids |-> NewRow([provider |-> "deepseek", instrument |-> "levenson",
                                           input_system |-> "ocean_direct"])]
    /\ InitTables
    /\ longitudinal = [w \in Workers |-> FALSE]
    /\ provider_texts = { << "4" >> }

InitParseAny ==
    /\ InitUnused
    /\ text \in Texts
    /\ parsed = NotParsed
    /\ InitLimiter
    /\ NoCreate

NextParse == parse_digit_call

SpecParse == InitParseAny /\ [][NextParse]_vars

\* ---------------------------------- clients/base.py: RateLimiter, complete

\* Bounds of the clock and of min_interval, in ticks.
MaxTime == 6
MaxInterval == 2

Methods == {"complete", "complete_with_messages"}

\* Mutants: "async with self._lock" without the lock, and start_time taken
\* before the rate limiter.
LockIgnored == TRUE

StartStampAtEntry(t) == call_log[t].entered

\* asyncio.Lock: acquire goes through when no task holds the lock.
LockAvailable == lock = NULL

\* start_time = time.monotonic(), after "await self.rate_limiter.acquire()"
StartStamp(t) == now

\* Time passes.
tick ==
    /\ now < MaxTime
    /\ now' = now + 1
    /\ UNCHANGED << store_vars, pc, cur, arg, attempts_read, runner_locals, loop_locals,
                    loop_history, parse_vars, create_vars, client_cache, last_request, lock, tpc, wake_at,
                    start_time, latency, min_interval, call_log, last_grant, reads >>

\* A task calls client.complete or client.complete_with_messages.
complete(t) ==
    /\ tpc[t] \in {"idle", "returned"}
    /\ \E m \in Methods :
         call_log' = [call_log EXCEPT ![t] = [NoCall EXCEPT !.method = m, !.entered = now]]
    /\ latency' = [latency EXCEPT ![t] = 0]
    /\ tpc' = [tpc EXCEPT ![t] = "acquire"]
    /\ UNCHANGED << store_vars, pc, cur, arg, attempts_read, runner_locals, loop_locals,
                    loop_history, parse_vars, create_vars, client_cache, now, last_request, lock, wake_at,
                    start_time, min_interval, last_grant, reads >>

\* RateLimiter.acquire, lines 40-48 up to the sleep: take the lock, read the
\* clock, compute elapsed; with nothing to wait for, stamp last_request and
\* leave the lock.
acquire(t) ==
    /\ tpc[t] = "acquire"
    /\ LockAvailable
    /\ LET elapsed == now - last_request IN
        IF elapsed < min_interval
        THEN /\ wake_at' = [wake_at EXCEPT ![t] = now + (min_interval - elapsed)]
             /\ lock' = t
             /\ tpc' = [tpc EXCEPT ![t] = "sleeping"]
             /\ reads' = reads + 1
             /\ UNCHANGED << last_request, last_grant, call_log >>
        ELSE /\ last_request' = now
             /\ last_grant' = now
             /\ reads' = 0
             /\ call_log' = [call_log EXCEPT ![t].granted = now]
             /\ tpc' = [tpc EXCEPT ![t] = "granted"]
             /\ UNCHANGED << wake_at, lock >>
    /\ UNCHANGED << store_vars, pc, cur, arg, attempts_read, runner_locals, loop_locals,
                    loop_history, parse_vars, create_vars, client_cache, now, start_time, latency, min_interval >>

\* RateLimiter.acquire after "await asyncio.sleep(wait_time)": the sleep is
\* over no earlier than asked; stamp last_request and leave the lock.
acquire_wake(t) ==
    /\ tpc[t] = "sleeping"
    /\ now >= wake_at[t]
    /\ last_request' = now
    /\ last_grant' = now
    /\ reads' = 0
    /\ call_log' = [call_log EXCEPT ![t].granted = now]
    /\ lock' = IF lock = t THEN NULL ELSE lock
    /\ wake_at' = [wake_at EXCEPT ![t] = 0]
    /\ tpc' = [tpc EXCEPT ![t] = "granted"]
    /\ UNCHANGED << store_vars, pc, cur, arg, attempts_read, runner_locals, loop_locals,
                    loop_history, parse_vars, create_vars, client_cache, now, start_time, latency, min_interval >>

\* complete, lines 97-98: start_time is taken and the vendor call
\* (_call_api / _call_api_messages) begins.
call_api(t) ==
    /\ tpc[t] = "granted"
    /\ start_time' = [start_time EXCEPT ![t] = StartStamp(t)]
    /\ call_log' = [call_log EXCEPT ![t].started = now]
    /\ tpc' = [tpc EXCEPT ![t] = "calling"]
    /\ UNCHANGED << store_vars, pc, cur, arg, attempts_read, runner_locals, loop_locals,
                    loop_history, parse_vars, create_vars, client_cache, now, last_request, lock, wake_at, latency,
                    min_interval, last_grant, reads >>

\* complete, lines 99-102: the vendor call returned; latency is stamped on the
\* result (in ticks) and complete returns. A vendor call that raises leaves no
\* result.
call_api_return(t) ==
    /\ tpc[t] = "calling"
    /\ \/ /\ latency' = [latency EXCEPT ![t] = now - start_time[t]]
          /\ tpc' = [tpc EXCEPT ![t] = "returned"]
       \/ /\ tpc' = [tpc EXCEPT ![t] = "idle"]
          /\ UNCHANGED latency
    /\ call_log' = [call_log EXCEPT ![t] = NoCall]
    /\ start_time' = [start_time EXCEPT ![t] = 0]
    /\ UNCHANGED << store_vars, pc, cur, arg, attempts_read, runner_locals, loop_locals,
                    loop_history, parse_vars, create_vars, client_cache, now, last_request, lock, wake_at,
                    min_interval, last_grant, reads >>

\* One client (one RateLimiter) used by concurrent tasks of one event loop.
InitClient ==
    /\ InitUnused
    /\ InitParse
    /\ NoCreate
    /\ now \in 0 .. MaxInterval
    /\ min_interval \in 1 .. MaxInterval
    /\ last_request = 0
    /\ lock = NULL
    /\ tpc = [t \in Tasks |-> "idle"]
    /\ wake_at = [t \in Tasks |-> 0]
    /\ start_time = [t \in Tasks |-> 0]
    /\ latency = [t \in Tasks |-> 0]
    /\ call_log = [t \in Tasks |-> NoCall]
    /\ last_grant = -1
    /\ reads = 0

NextClient ==
    \/ tick
    \/ \E t \in Tasks :
        \/ complete(t)
        \/ acquire(t)
        \/ acquire_wake(t)
        \/ call_api(t)
        \/ call_api_return(t)

SpecClient == InitClient /\ [][NextClient]_vars

\* ------------------------------------------------------ runner: snapshot

\* The ids of a set, ascending: ORDER BY experiment_id, id (one experiment).
RECURSIVE Ascending(_)
Ascending(S) ==
    IF S = {} THEN << >>
    ELSE LET m == CHOOSE x \in S : \A y \in S : x <= y
         IN << m >> \o Ascending(S \ {m})

\* WHERE status IN ('pending', 'retry')
IsPending(r) == test_cases[r].status \in {"pending", "retry"}

\* get_pending_test_cases(limit): "if limit:" takes SELECT TOP(limit), and the
\* unlimited SELECT for None and for 0 alike (limit 0 stands for both).
get_pending_test_cases(limit) ==
    LET all == Ascending({r \in Ids : IsPending(r)})
    IN IF limit # 0 /\ limit < Len(all) THEN SubSeq(all, 1, limit) ELSE all

\* get_pending_test_cases_for_experiment(experiment_id): every row belongs to
\* the one experiment.
get_pending_test_cases_for_experiment == Ascending({r \in Ids : IsPending(r)})

\* A SELECT over test_cases waits while another connection holds a row lock.
SelectWaits(w) == \E r \in Ids : Blocked(w, r)

\* run_pending(limit), up to its loop: the snapshot, and the early return.
\* A worker is one invocation of the command line's "run".
run_pending(w) ==
    /\ pc[w] = "idle"
    /\ ~SelectWaits(w)
    /\ \E limit \in 0 .. NumJobs :
        /\ pending' = [pending EXCEPT ![w] = get_pending_test_cases(limit)]
        /\ pc' = [pc EXCEPT ![w] = IF pending'[w] = << >> THEN "r_done" ELSE "r_loop"]
    /\ idx' = [idx EXCEPT ![w] = 1]
    /\ of_experiment' = [of_experiment EXCEPT ![w] = FALSE]
    /\ UNCHANGED << store_vars, cur, arg, attempts_read, qn, exc, client_side >>

\* start_experiment: UPDATE experiments SET status = 'running', started_at = ...
\* WHERE id = ? AND started_at IS NULL
start_experiment ==
    IF experiment.started_at = NULL
    THEN [experiment EXCEPT !.status = "running", !.started_at = "utc"]
    ELSE experiment

\* complete_experiment: UPDATE experiments SET status = 'complete', completed_at = ...
complete_experiment == [experiment EXCEPT !.status = "complete", !.completed_at = "utc"]

\* run_experiment(experiment_id), up to its loop: the snapshot, the early
\* return, and start_experiment.
run_experiment(w) ==
    /\ pc[w] = "idle"
    /\ ~SelectWaits(w)
    /\ pending' = [pending EXCEPT ![w] = get_pending_test_cases_for_experiment]
    /\ IF pending'[w] = << >>
       THEN /\ pc' = [pc EXCEPT ![w] = "r_done"]
            /\ UNCHANGED experiment
       ELSE /\ pc' = [pc EXCEPT ![w] = "r_loop"]
            /\ experiment' = start_experiment
    /\ idx' = [idx EXCEPT ![w] = 1]
    /\ of_experiment' = [of_experiment EXCEPT ![w] = TRUE]
    /\ UNCHANGED << test_cases, results, responses, xlock, undo, hist,
                    cur, arg, attempts_read, qn, exc, client_side >>

\* ---------------------------------------------------- runner: one job

\* _get_client: "No API key for ..." when api_keys.get(provider) is empty, then
\* create_client: "Unknown provider" for a key outside _PROVIDERS;
\* get_instrument and get_input_system likewise. NULL: nothing raised.
ResolveError(row) ==
    IF row.provider \notin ApiKeys THEN "No API key"
    ELSE IF row.provider \notin KnownProviders THEN "Unknown provider"
    ELSE IF row.instrument \notin KnownInstruments \cup {EmptyInstrument}
         THEN "Unknown instrument"
    ELSE IF row.input_system \notin KnownInputSystems THEN "Unknown input system"
    ELSE NULL

\* Mutant of update_test_case_status: the UPDATE matching no row.
update_no_row(row, status, message) == row

\* update_test_case_status(id, status, error_message): "if error_message:" writes
\* the message only when it is a non-empty string.
update_test_case_status(row, status, message) ==
    IF message # NULL /\ message # ""
    THEN [row EXCEPT !.status = status, !.error_message = message]
    ELSE [row EXCEPT !.status = status]

\* The status the except branch of run_test_case gives the job.
ExceptStatus == "error"

\* instrument.get_questions(): Question(number, text, ...) in declared order.
\* phq3_a has its 3 questions; the 26 of levenson and the 44 of bfi are bounded.
QuestionTexts == << "Q1", "Q2", "Q3", "Q4" >>

get_question_count(instrument) ==
    IF instrument = "phq3_a" THEN 3
    ELSE IF instrument = EmptyInstrument THEN 0
    ELSE NumQuestions

\* Question.number in declared order. levenson and phq3_a declare 1, 2, 3, ...;
\* bfi declares its items factor by factor (1, 6, 11, ..., 36, 2, 7, ..., 42,
\* 3, 8, ...): the items 6, 2, 7 and 3 of that list, in its order.
question_numbers(instrument) ==
    IF instrument = "bfi" THEN << 6, 2, 7, 3 >> ELSE << 1, 2, 3, 4 >>

get_questions(instrument) ==
    [k \in 1 .. get_question_count(instrument) |->
        [number |-> question_numbers(instrument)[k], text |-> QuestionTexts[k]]]

\* f"{personality_text}\n\nBased on these personality traits, {scale_instructions}":
\* the preamble of the job's input system and the instructions of its instrument.
system_prompt(row) == << row.input_system, "Based on these personality traits", row.instrument >>

\* f'Statement: "{question.text}"\n\nRespond with ONLY a single number ...'
user_msg(question) == << "Statement", question.text, "Respond with ONLY a single number" >>

\* Mutants of WithReply and of sequence_position.
WithoutReply(msgs, reply) == msgs

sequence_position_always(long, seq_position) == seq_position

\* messages.append({"role": "user", "content": user_msg})
WithUser(msgs, question) == Append(msgs, [role |-> "user", content |-> user_msg(question)])

\* messages.append({"role": "assistant", "content": result.text})
WithReply(msgs, reply) == Append(msgs, [role |-> "assistant", content |-> reply])

\* 'sequence_position': seq_position if self.config.longitudinal else None
sequence_position(long, seq_position) == IF long THEN seq_position ELSE None

\* 'context_tokens': result.prompt_tokens if self.config.longitudinal else None
context_tokens(long, prompt_tokens) == IF long THEN prompt_tokens ELSE None

\* What the runner hands to the client for a question: complete(prompt) with
\* prompt = f"{system_prompt}\n\n{user_msg}", or
\* complete_with_messages(messages, system=system_prompt).
Request(long, row, question, msgs) ==
    IF long
    THEN [method |-> "complete_with_messages", system |-> system_prompt(row),
          prompt |-> << >>, messages |-> WithUser(msgs, question)]
    ELSE [method |-> "complete", system |-> << >>,
          prompt |-> system_prompt(row) \o user_msg(question), messages |-> << >>]

\* usage.prompt_tokens of the provider's answer: one per message it was sent.
PromptTokens(request) ==
    IF request.method = "complete" THEN 1 ELSE Len(request.messages) + 1

\* Mutant of NewMessages: the history of the job before kept.
KeptMessages(msgs) == msgs

\* "messages = []": run_test_case's history is a new list in every execution.
NewMessages(msgs) == << >>

\* Where the loop of run_pending / run_experiment goes after run_test_case
\* returned for pending[idx]; the locals of run_test_case are gone.
LoopNext(w) ==
    /\ idx' = [idx EXCEPT ![w] = @ + 1]
    /\ pc' = [pc EXCEPT ![w] =
                IF idx[w] < Len(pending[w]) THEN "r_loop"
                ELSE IF of_experiment[w] THEN "r_finish" ELSE "r_done"]
    /\ cur' = [cur EXCEPT ![w] = None]
    /\ qn' = [qn EXCEPT ![w] = 0]
    /\ messages' = [messages EXCEPT ![w] = NewMessages(@)]
    /\ local_responses' = [local_responses EXCEPT ![w] = << >>]
    /\ result' = [result EXCEPT ![w] = NoResult]
    /\ calls' = [calls EXCEPT ![w] = << >>]

\* Mutant of Cached: _get_client without its cache.
NeverCached(w, provider) == FALSE

\* "provider in self._clients"
Cached(w, provider) == provider \in KnownProviders /\ clients[w][provider] # NoClient

\* Whether _get_client(provider) returns a client: the cached one, or the one
\* create_client builds when the provider has an API key and is registered.
HasClient(w, provider) ==
    Cached(w, provider) \/ (provider \in ApiKeys /\ provider \in KnownProviders)

\* self._clients after _get_client(provider): create_client(provider, api_key)
\* is stored when the provider is not cached. A client carries its own
\* RateLimiter (BaseLLMClient.__init__); serial tells the clients created for
\* one provider apart.
get_client(w, provider) ==
    IF HasClient(w, provider) /\ ~Cached(w, provider)
    THEN [clients EXCEPT ![w][provider] =
              [provider |-> provider, serial |-> clients_created[w][provider] + 1]]
    ELSE clients

\* The clients created so far, after _get_client(provider).
get_client_created(w, provider) ==
    IF HasClient(w, provider) /\ ~Cached(w, provider)
    THEN [clients_created EXCEPT ![w][provider] = @ + 1]
    ELSE clients_created

\* run_test_case, lines 44-72: resolve client, instrument and input system,
\* then update_test_case_status(id, 'running'), responses = {}, messages = [].
\* A raise goes to the except branch.
run_test_case_begin(w) ==
    /\ pc[w] = "r_loop"
    /\ LET r == pending[w][idx[w]]
           err == ResolveError(test_cases[r]) IN
        /\ cur' = [cur EXCEPT ![w] = r]
        /\ clients' = get_client(w, test_cases[r].provider)
        /\ clients_created' = get_client_created(w, test_cases[r].provider)
        /\ IF err # NULL
           THEN /\ exc' = [exc EXCEPT ![w] = err]
                /\ pc' = [pc EXCEPT ![w] = "r_except"]
                /\ UNCHANGED << test_cases, hist, qn >>
           ELSE /\ ~Blocked(w, r)
                /\ \/ /\ test_cases' = [test_cases EXCEPT ![r] =
                                           update_test_case_status(@, "running", NULL)]
                      /\ hist' = Unlogged(r)
                      /\ qn' = [qn EXCEPT ![w] = 1]
                      /\ pc' = [pc EXCEPT ![w] =
                                  IF get_question_count(test_cases[r].instrument) = 0
                                  THEN "r_score" ELSE "r_call"]
                      /\ UNCHANGED exc
                   \/ /\ exc' = [exc EXCEPT ![w] = "database error"]
                      /\ pc' = [pc EXCEPT ![w] = "r_except"]
                      /\ UNCHANGED << test_cases, hist, qn >>
    /\ UNCHANGED << results, responses, experiment, xlock, undo, arg, attempts_read,
                    pending, idx, of_experiment, loop_locals, loop_history,
                    parse_vars, create_vars, limiter_vars >>

\* Lines 75-91 for the question at seq_position qn: the user message, the
\* request, and the provider call (client.complete / complete_with_messages),
\* which returns a CompletionResult, or raises: an API error, or a timeout
\* whose str(e) is empty. In longitudinal mode the reply joins the history.
network_call(w) ==
    /\ pc[w] = "r_call"
    /\ LET row == test_cases[cur[w]]
           question == get_questions(row.instrument)[qn[w]]
           request == Request(longitudinal[w], row, question, messages[w]) IN
        \/ \E reply \in provider_texts :
            /\ result' = [result EXCEPT ![w] =
                              [text |-> reply, prompt_tokens |-> PromptTokens(request)]]
            /\ messages' = [messages EXCEPT ![w] =
                              IF longitudinal[w] THEN WithReply(request.messages, reply) ELSE @]
            /\ calls' = [calls EXCEPT ![w] =
                              Append(@, [request |-> request, replied |-> TRUE, reply |-> reply,
                                         client |-> clients[w][row.provider]])]
            /\ pc' = [pc EXCEPT ![w] = "r_insert"]
            /\ UNCHANGED exc
        \/ /\ \E m \in {"API error", ""} : exc' = [exc EXCEPT ![w] = m]
           /\ messages' = [messages EXCEPT ![w] =
                              IF longitudinal[w] THEN request.messages ELSE @]
           /\ calls' = [calls EXCEPT ![w] =
                              Append(@, [request |-> request, replied |-> FALSE, reply |-> << >>,
                                         client |-> clients[w][row.provider]])]
           /\ pc' = [pc EXCEPT ![w] = "r_except"]
           /\ UNCHANGED result
    /\ UNCHANGED << store_vars, cur, arg, attempts_read, pending, idx, qn, of_experiment,
                    longitudinal, local_responses, result_rows, provider_texts,
                    parse_vars, create_vars, client_cache, limiter_vars >>

\* responses[question.number] = score
DictSet(d, key, value) ==
    [n \in (DOMAIN d) \cup {key} |-> IF n = key THEN value ELSE d[n]]

\* Mutant of LoopDone: the loop left one question early.
LoopDoneEarly(seq_position, count) == seq_position + 1 >= count

\* "for seq_position, question in enumerate(instrument.get_questions(), start=1)"
\* is over after the last question.
LoopDone(seq_position, count) == seq_position >= count

\* Mutant of ResponseRow: the row numbered by its place in the loop.
ResponseRowByPosition(long, question, seq_position, res, score) ==
    [ question_number |-> seq_position, raw_response |-> res.text,
      parsed_score |-> score,
      sequence_position |-> sequence_position(long, seq_position),
      context_tokens |-> context_tokens(long, res.prompt_tokens) ]

\* The row db.insert_response is given for the question at seq_position.
ResponseRow(long, question, seq_position, res, score) ==
    [ question_number |-> question.number, raw_response |-> res.text,
      parsed_score |-> score,
      sequence_position |-> sequence_position(long, seq_position),
      context_tokens |-> context_tokens(long, res.prompt_tokens) ]

\* Mutant of Inserted: the new row written over the rows of its test case.
InsertedOver(rows, row) == << row >>

\* db.insert_response: INSERT INTO responses (...) VALUES (...), one new row
\* after the rows the table holds for the test case.
Inserted(rows, row) == Append(rows, row)

\* Lines 93-108: score = client._parse_digit(result.text), responses[number] =
\* score, db.insert_response(...), and the loop's step to the next question.
insert_response(w) ==
    /\ pc[w] = "r_insert"
    /\ LET row == test_cases[cur[w]]
           question == get_questions(row.instrument)[qn[w]]
           score == parse_digit(result[w].text) IN
        IF score.raised
        THEN /\ exc' = [exc EXCEPT ![w] = "invalid literal for int()"]
             /\ pc' = [pc EXCEPT ![w] = "r_except"]
             /\ UNCHANGED << responses, qn, local_responses >>
        ELSE /\ local_responses' = [local_responses EXCEPT ![w] =
                                       DictSet(@, question.number, score.value)]
             /\ \/ /\ responses' = [responses EXCEPT ![cur[w]] =
                                       Inserted(@, ResponseRow(longitudinal[w], question, qn[w],
                                                               result[w], score.value))]
                   /\ qn' = [qn EXCEPT ![w] = @ + 1]
                   /\ pc' = [pc EXCEPT ![w] =
                               IF LoopDone(qn[w], get_question_count(row.instrument))
                               THEN "r_score" ELSE "r_call"]
                   /\ UNCHANGED exc
                \/ /\ exc' = [exc EXCEPT ![w] = "database error"]
                   /\ pc' = [pc EXCEPT ![w] = "r_except"]
                   /\ UNCHANGED << responses, qn >>
    /\ UNCHANGED << test_cases, results, experiment, xlock, undo, hist, cur, arg,
                    attempts_read, pending, idx, of_experiment, longitudinal, messages,
                    result, loop_history, parse_vars, create_vars, client_cache, limiter_vars >>

\* instrument.calculate_scores(responses): what of it db.insert_result stores
\* of the answers (questions_answered = len(responses)) and the dict scored.
calculate_scores(instrument, d) ==
    [ questions_answered |-> Cardinality(DOMAIN d),
      questions_total |-> get_question_count(instrument),
      scored |-> d ]

\* Mutant of normalize_raises: normalize without "if not scores".
normalize_unguarded(n) == n = 0

\* normalize(scores) of levenson, bfi and dark_triad, for a list of n scores:
\* whether it raises ZeroDivisionError.
normalize_raises(n) ==
    IF n = 0 THEN FALSE     \* if not scores: return 0.0
    ELSE n = 0              \* mean = sum(scores) / len(scores)

\* The lengths of the per-factor score lists calculate_scores hands to
\* normalize: the items of the bounded catalogs are of the instrument's first
\* factor, its other factors have no score. The phq instruments divide by a
\* constant and call no normalize.
factor_scores_raw(instrument, d) ==
    IF instrument = "phq3_a" THEN << >> ELSE << Cardinality(DOMAIN d), 0 >>

\* Whether instrument.calculate_scores(responses) raises.
calculate_scores_raises(instrument, d) ==
    \E i \in DOMAIN factor_scores_raw(instrument, d) :
        normalize_raises(factor_scores_raw(instrument, d)[i])

\* calculate_scores and db.insert_result (committed by its own execute).
insert_result(w) ==
    /\ pc[w] = "r_score"
    /\ \/ /\ ~calculate_scores_raises(test_cases[cur[w]].instrument, local_responses[w])
          /\ results' = [results EXCEPT ![cur[w]] = @ + 1]
          /\ result_rows' = [result_rows EXCEPT ![cur[w]] =
                Append(@, calculate_scores(test_cases[cur[w]].instrument, local_responses[w]))]
          /\ pc' = [pc EXCEPT ![w] = "r_complete"]
          /\ UNCHANGED exc
       \/ /\ exc' = [exc EXCEPT ![w] =
                       IF calculate_scores_raises(test_cases[cur[w]].instrument,
                                                  local_responses[w])
                       THEN "division by zero" ELSE "database error"]
          /\ pc' = [pc EXCEPT ![w] = "r_except"]
          /\ UNCHANGED << results, result_rows >>
    /\ UNCHANGED << test_cases, responses, experiment, xlock, undo, hist, cur, arg,
                    attempts_read, pending, idx, qn, of_experiment, loop_locals,
                    provider_texts, calls, parse_vars, create_vars, client_cache, limiter_vars >>

\* db.update_test_case_status(id, 'complete'); return True.
run_test_case_complete(w) ==
    /\ pc[w] = "r_complete"
    /\ ~Blocked(w, cur[w])
    /\ \/ /\ test_cases' = [test_cases EXCEPT ![cur[w]] =
                               update_test_case_status(@, "complete", NULL)]
          /\ LoopNext(w)
          /\ UNCHANGED exc
       \/ /\ exc' = [exc EXCEPT ![w] = "database error"]
          /\ pc' = [pc EXCEPT ![w] = "r_except"]
          /\ UNCHANGED << test_cases, idx, cur, qn, messages, local_responses, result, calls >>
    /\ UNCHANGED << results, responses, experiment, xlock, undo, hist, arg,
                    attempts_read, pending, of_experiment, longitudinal, result_rows,
                    provider_texts, parse_vars, create_vars, client_cache, limiter_vars >>

\* except Exception as e: db.update_test_case_status(id, 'error', str(e));
\* return False. When that update raises too, the exception leaves
\* run_test_case and ends run_pending / run_experiment.
run_test_case_except(w) ==
    /\ pc[w] = "r_except"
    /\ ~Blocked(w, cur[w])
    /\ \/ /\ test_cases' = [test_cases EXCEPT ![cur[w]] =
                               update_test_case_status(@, ExceptStatus, exc[w])]
          /\ hist' = Unlogged(cur[w])
          /\ LoopNext(w)
       \/ /\ pc' = [pc EXCEPT ![w] = "r_raised"]
          /\ UNCHANGED << test_cases, hist, idx, cur, qn, messages, local_responses,
                          result, calls >>
    /\ exc' = [exc EXCEPT ![w] = NULL]
    /\ UNCHANGED << results, responses, experiment, xlock, undo, arg,
                    attempts_read, pending, of_experiment, longitudinal, result_rows,
                    provider_texts, parse_vars, create_vars, client_cache, limiter_vars >>

\* run_experiment after its loop: db.complete_experiment(experiment_id).
run_experiment_finish(w) ==
    /\ pc[w] = "r_finish"
    /\ experiment' = complete_experiment
    /\ pc' = [pc EXCEPT ![w] = "r_done"]
    /\ UNCHANGED << test_cases, results, responses, xlock, undo, hist, cur, arg,
                    attempts_read, pending, idx, qn, exc, of_experiment, client_side >>

\* ------------------------------------------------ runner specification
\* ExperimentRunner workers ("run" of the command line), each its own process.
NextRunner ==
    \E w \in Workers :
        \/ run_pending(w)
        \/ run_experiment(w)
        \/ run_test_case_begin(w)
        \/ network_call(w)
        \/ insert_response(w)
        \/ insert_result(w)
        \/ run_test_case_complete(w)
        \/ run_test_case_except(w)
        \/ run_experiment_finish(w)

SpecRunner == Init /\ [][NextRunner]_vars

\* ------------------------------------------- one runner, one resolvable job
\* The texts the provider answers with: ratings, a text without a digit, and
\* a text whose only digit is a superscript.
JobTexts == { << "4" >>, << "x" >>, << "2" >>, << "sup7" >> }

\* The one runner process of this specification.
JobWorker == "w1"

\* The jobs run_test_case resolves: levenson, bfi, the 3 questions of phq3_a,
\* and the instrument without questions.
ResolvableKeys ==
    { [provider |-> "deepseek", instrument |-> "levenson", input_system |-> "ocean_direct"],
      [provider |-> "deepseek", instrument |-> EmptyInstrument, input_system |-> "ocean_direct"],
      [provider |-> "claude", instrument |-> "levenson", input_system |-> "ocean_direct"],
      [provider |-> "deepseek", instrument |-> "bfi", input_system |-> "ocean_direct"],
      [provider |-> "deepseek", instrument |-> "phq3_a", input_system |-> "ocean_direct"] }

\* One runner, in either mode, whose first pending job resolves and whose other
\* jobs fail to resolve, against a provider that may answer any of JobTexts.
InitJob ==
    /\ test_cases \in [Ids -> {NewRow(k) : k \in JobKeys \cup ResolvableKeys}]
    /\ test_cases[1] \in {NewRow(k) : k \in ResolvableKeys}
    /\ \A r \in Ids \ {1} : ResolveError(test_cases[r]) # NULL
    /\ InitTables
    /\ \E long \in BOOLEAN : longitudinal = [w \in Workers |-> long]
    /\ provider_texts = JobTexts
    /\ InitParse
    /\ InitLimiter
    /\ NoCreate

NextJob ==
    \/ run_pending(JobWorker)
    \/ run_experiment(JobWorker)
    \/ run_test_case_begin(JobWorker)
    \/ network_call(JobWorker)
    \/ insert_response(JobWorker)
    \/ insert_result(JobWorker)
    \/ run_test_case_complete(JobWorker)
    \/ run_test_case_except(JobWorker)
    \/ run_experiment_finish(JobWorker)

SpecJob == InitJob /\ [][NextJob]_vars

\* --------------------------------------- the store, with start called freely
\* start_test_case(id, prompt) called by a worker for a row it holds no claim
\* on: the UPDATE ... WHERE id = ? and its commit. The attempts counter is
\* capped at RetryLimit to keep the state space finite.
start_test_case_at(w, r) ==
    /\ pc[w] \in {"idle", "empty"}
    /\ ~Blocked(w, r)
    /\ test_cases[r].attempts < RetryLimit
    /\ test_cases' = [test_cases EXCEPT ![r] = StartedRow(@)]
    /\ hist' = Unlogged(r)
    /\ xlock' = CommitLocks(w)
    /\ undo' = [undo EXCEPT ![w] = {}]
    /\ UNCHANGED << results, responses, experiment, pc, cur, arg, attempts_read,
                    runner_locals, client_side >>

NextStart ==
    \/ NextStore
    \/ \E w \in Workers : \E r \in Ids : start_test_case_at(w, r)

SpecStart == InitStore /\ [][NextStart]_vars


\* =================================================================== claims

\* Worker w holds job r: claim_test_case returned r to w, and w has not yet
\* given it up by fail_test_case or complete_test_case.
Holds(w, r) ==
    /\ cur[w] = r
    /\ pc[w] \in {"claimed", "started", "completing", "complete_raised", "failing"}

\* C1 (claim exclusivity): whatever claim_test_case calls the workers make, in
\* any interleaving, no row is held by two callers at once, and a worker that
\* is about to call claim_test_case can always run it: the claim waits on no
\* lock of another worker.
C1_ClaimExclusive ==
    /\ \A r \in Ids : \A w1, w2 \in Workers :
          (Holds(w1, r) /\ Holds(w2, r)) => w1 = w2
    /\ \A w \in Workers : pc[w] \in {"idle", "empty"} => ENABLED claim_test_case(w)

\* C1 witness: one worker holds a row through its still uncommitted claim while
\* the other worker's claim for the same provider returned None.
C1_Witness ==
    \E r \in Ids : \E w1, w2 \in Workers :
        /\ w1 # w2
        /\ pc[w1] = "claimed" /\ cur[w1] = r /\ xlock[r] = w1
        /\ pc[w2] = "empty" /\ arg[w2] = test_cases[r].provider

\* The statuses of a job whose three attempts all fail with a retryable error.
RetrySequence ==
    << "pending", "locked", "running", "retry", "locked", "running", "retry",
       "locked", "running", "failed" >>

\* The sequence as the scenario of the specification gives it.
ScenarioSequence ==
    << "pending", "locked", "retry", "locked", "retry", "locked", "failed" >>

IsPrefix(s, t) == Len(s) <= Len(t) /\ s = SubSeq(t, 1, Len(s))

\* The number of failed attempts in a history of statuses.
RECURSIVE FailedAttempts(_)
FailedAttempts(h) ==
    IF h = << >> THEN 0
    ELSE (IF Head(h) \in {"retry", "failed"} THEN 1 ELSE 0) + FailedAttempts(Tail(h))

\* C4 as amended (retry bound): a job whose every attempt fails with a retryable
\* error is failed exactly after its 3rd failed attempt, never earlier, with
\* attempts = 3, and the statuses it goes through are
\* pending, locked, running, retry, locked, running, retry, locked, running, failed.
C4_RetryBound ==
    \A r \in Ids : hist[r] # << >> =>
        /\ IsPrefix(hist[r], RetrySequence)
        /\ (test_cases[r].status = "failed") <=> (FailedAttempts(hist[r]) = 3)
        /\ test_cases[r].status = "failed" => test_cases[r].attempts = 3

\* C4 witness: a job that failed three times with a retryable error.
C4_Witness ==
    \E r \in Ids : hist[r] = RetrySequence /\ test_cases[r].status = "failed"

\* C4 as stated: a job that times out three times goes through
\* pending, locked, retry, locked, retry, locked, failed, and has attempts = 3.
C4_ScenarioSequence ==
    \A r \in Ids : (hist[r] # << >> /\ test_cases[r].status = "failed") =>
        /\ hist[r] = ScenarioSequence
        /\ test_cases[r].attempts = 3

\* C5 (complete_test_case is atomic): after complete_test_case raised on a
\* running job, either the job is complete and its Result row exists, or the
\* job is still running and no Result row was inserted.
C5_CompleteAtomic ==
    \A w \in Workers : pc[w] = "complete_raised" =>
        \/ test_cases[cur[w]].status = "complete" /\ results[cur[w]] >= 1
        \/ test_cases[cur[w]].status = "running" /\ results[cur[w]] = 0

\* A step in which worker w runs the UPDATE of fail_test_case.
FailStep(w) ==
    /\ pc[w] \in {"failing", "claimed", "started", "complete_raised"}
    /\ pc'[w] = "idle"

\* C8 (fail): a fail of job r with retryable set and attempts < 3 moves r to
\* retry, with worker_id and locked_at cleared; every other fail moves it to
\* failed; every fail sets error_message to the given message and changes no
\* other column of r and no other row.
C8_Fail ==
    [][ \A w \in Workers : FailStep(w) =>
          LET r == cur[w]
              retryable == (pc[w] = "failing")
              old == test_cases[r]
              new == test_cases'[r]
          IN /\ new.status = IF retryable /\ old.attempts < 3 THEN "retry" ELSE "failed"
             /\ new.status = "retry" => (new.worker_id = NULL /\ new.locked_at = NULL)
             /\ new.error_message = IF retryable THEN "timeout" ELSE "configuration error"
             /\ new.attempts = old.attempts /\ new.provider = old.provider
             /\ \A r2 \in Ids \ {r} : test_cases'[r2] = test_cases[r2]
             /\ results' = results /\ responses' = responses
      ]_vars

\* C8 witness: a retryable fail has put a job in retry, its lock fields cleared
\* and the message recorded.
C8_Witness ==
    \E r \in Ids :
        /\ test_cases[r].status = "retry" /\ test_cases[r].attempts < 3
        /\ test_cases[r].error_message = "timeout"
        /\ test_cases[r].worker_id = NULL /\ test_cases[r].locked_at = NULL

\* A step in which worker w runs claim_test_case (a claim that returns None
\* twice for the same provider changes nothing and is no step).
ClaimStep(w) ==
    /\ pc[w] \in {"idle", "empty"}
    /\ \/ pc'[w] = "claimed"
       \/ pc'[w] = "empty" /\ (pc[w] = "idle" \/ arg'[w] # arg[w])

\* C9 (claim): a claim for a provider that returns row r found r pending or
\* retry with that provider, leaves r locked with worker_id the caller and
\* locked_at stamped, and changes nothing else; a claim returns None exactly
\* when no row of the provider is pending or retry, and then changes nothing.
C9_Claim ==
    [][ \A w \in Workers : ClaimStep(w) =>
          LET p == arg'[w]
              r == cur'[w]
              wanted == {x \in Ids : /\ test_cases[x].status \in {"pending", "retry"}
                                     /\ test_cases[x].provider = p}
          IN IF pc'[w] = "claimed"
             THEN /\ r \in wanted
                  /\ test_cases'[r] = [test_cases[r] EXCEPT !.status = "locked",
                                          !.worker_id = w, !.locked_at = "utc"]
                  /\ \A r2 \in Ids \ {r} : test_cases'[r2] = test_cases[r2]
                  /\ results' = results /\ responses' = responses
             ELSE /\ wanted = {}
                  /\ r = None
                  /\ test_cases' = test_cases
                  /\ results' = results /\ responses' = responses
      ]_vars

\* C9 witness: a claim returned a row, now locked for the caller, while a row
\* of another provider stayed pending and a claim of the other worker for the
\* first provider returned None.
C9_Witness ==
    \E w1, w2 \in Workers : \E r2 \in Ids :
        /\ pc[w1] = "claimed"
        /\ test_cases[cur[w1]].status = "locked"
        /\ test_cases[cur[w1]].worker_id = w1
        /\ test_cases[cur[w1]].locked_at = "utc"
        /\ test_cases[r2].status = "pending"
        /\ test_cases[r2].provider # test_cases[cur[w1]].provider
        /\ pc[w2] = "empty" /\ arg[w2] = test_cases[cur[w1]].provider

\* Worker w's runner is inside run_test_case for job r.
Executing(w, r) ==
    /\ cur[w] = r
    /\ pc[w] \in {"r_call", "r_insert", "r_score", "r_complete", "r_except"}

\* C2 (exclusive execution): while runner workers drain jobs concurrently, no
\* test case is executed by two workers at the same time.
C2_ExclusiveExecution ==
    \A r \in Ids : \A w1, w2 \in Workers :
        (Executing(w1, r) /\ Executing(w2, r)) => w1 = w2

\* C3 (terminal states are absorbing): no step of any worker changes the status
\* of a test case that is complete or failed.
C3_TerminalAbsorbing ==
    [][ \A r \in Ids : test_cases[r].status \in {"complete", "failed"} =>
                          test_cases'[r].status = test_cases[r].status ]_vars

\* A step in which the except branch of run_test_case, run by worker w, has
\* recorded the failure of its job.
ExceptStep(w) ==
    /\ pc[w] = "r_except"
    /\ pc'[w] \in {"r_loop", "r_done", "r_finish"}

\* C6 (exceptions go through fail, retryable): the except branch leaves the job
\* in retry when its attempts are below 3 and in failed otherwise, with the
\* error message recorded on the job.
C6_ExceptionRoutesToFail ==
    [][ \A w \in Workers : ExceptStep(w) =>
          LET old == test_cases[cur[w]]
              new == test_cases'[cur[w]]
          IN /\ new.status = IF old.attempts < 3 THEN "retry" ELSE "failed"
             /\ new.error_message = exc[w]
      ]_vars

\* The messages of the configuration errors run_test_case can meet.
ConfigurationErrors ==
    {"No API key", "Unknown provider", "Unknown instrument", "Unknown input system"}

\* C7 (configuration errors are fatal): the except branch, entered for a
\* configuration error, leaves the job failed; the job was sent no network
\* call and has no Response or Result row written for it.
C7_ConfigurationErrorFails ==
    [][ \A w \in Workers : (ExceptStep(w) /\ exc[w] \in ConfigurationErrors) =>
          /\ test_cases'[cur[w]].status = "failed"
          /\ responses' = responses
          /\ results' = results
      ]_vars

\* C10 (one Result per completed job): every test case has at most one Result
\* row, and has one exactly when its status is complete.
C10_ResultIffComplete ==
    \A r \in Ids :
        /\ results[r] <= 1
        /\ (results[r] = 1) <=> (test_cases[r].status = "complete")

\* C11 (completion is all-or-nothing): every Result row the runner wrote has
\* questions_answered equal to the questions_total of the job's instrument, and
\* a job has a Result row only when every one of its questions was answered
\* and persisted: an attempt that failed on a question wrote none.
C11_AllOrNothing ==
    \A r \in Ids :
        LET count == get_question_count(test_cases[r].instrument) IN
        /\ \A i \in 1 .. Len(result_rows[r]) :
              /\ result_rows[r][i].questions_answered = result_rows[r][i].questions_total
              /\ result_rows[r][i].questions_total = count
        /\ results[r] > 0 => Len(responses[r]) = count
        /\ Len(result_rows[r]) = results[r]

\* C11 witness: an attempt that failed after its first question was persisted
\* and before its last one was is over, and left no Result row.
C11_Witness ==
    \E r \in Ids :
        /\ test_cases[r].status = "error"
        /\ Len(responses[r]) >= 1
        /\ Len(responses[r]) < get_question_count(test_cases[r].instrument)
        /\ results[r] = 0

\* C12 (start): whenever a job is moved to running by start, it was locked
\* before, its attempts grew by exactly one and the prompt is recorded; a job
\* in any other status is not moved to running.
C12_StartFromLocked ==
    [][ \A r \in Ids :
          (test_cases'[r] # test_cases[r] /\ test_cases'[r].status = "running") =>
              /\ test_cases[r].status = "locked"
              /\ test_cases'[r].attempts = test_cases[r].attempts + 1
              /\ test_cases'[r].prompt_sent = "prompt"
      ]_vars

\* C13 (one Response row per question per test case): the responses table
\* never holds two rows with the same test case and question number.
C13_OneResponsePerQuestion ==
    \A r \in Ids : \A i, j \in 1 .. Len(responses[r]) :
        responses[r][i].question_number = responses[r][j].question_number => i = j

\* A step in which acquire is granted to task t.
GrantStep(t) == call_log[t].granted < 0 /\ call_log'[t].granted >= 0

\* C14 (rate spacing): between two consecutive grants of acquire on one
\* RateLimiter at least min_interval passes, whatever the tasks and their
\* interleaving; at most one task at a time is between reading last_request and
\* stamping it, so no two callers compute their wait from the same value.
C14_RateSpacing ==
    /\ [](reads <= 1 /\ Cardinality({t \in Tasks : tpc[t] = "sleeping"}) <= 1)
    /\ [][ \A t \in Tasks : GrantStep(t) =>
              /\ last_grant' = now
              /\ last_grant >= 0 => now - last_grant >= min_interval ]_vars

\* C14 witness: two calls are in flight at once; the second was granted after
\* a wait, at least min_interval after the first.
C14_Witness ==
    \E t1, t2 \in Tasks :
        /\ t1 # t2
        /\ call_log[t1].granted >= 0
        /\ call_log[t2].entered <= call_log[t1].granted
        /\ call_log[t2].granted > call_log[t2].entered
        /\ call_log[t2].granted >= call_log[t1].granted + min_interval

\* C15 (acquire before every network call): in complete and in
\* complete_with_messages the vendor call starts only after acquire was granted
\* for that same call, and the latency stamped on the result is the time from
\* the start of the vendor call to its return: the wait is not in it.
C15_AcquireBeforeCall ==
    /\ [](\A t \in Tasks : call_log[t].started >= 0 =>
              /\ call_log[t].method \in Methods
              /\ call_log[t].granted >= call_log[t].entered
              /\ call_log[t].started >= call_log[t].granted)
    /\ [][ \A t \in Tasks : (tpc[t] = "calling" /\ tpc'[t] = "returned") =>
              latency'[t] = now - call_log[t].started ]_vars

\* C15 witness: a call that waited for the rate limiter has its vendor call
\* under way for some time.
C15_Witness ==
    \E t \in Tasks :
        /\ tpc[t] = "calling"
        /\ call_log[t].method = "complete_with_messages"
        /\ call_log[t].granted > call_log[t].entered
        /\ now > call_log[t].started

\* C16 (parseRating is total and bounded): a call of _parse_digit never raises
\* and returns an integer in 1..5.
C16_ParseTotal ==
    parsed # NotParsed => (~parsed.raised /\ parsed.value \in 1 .. 5)

\* The characters that are a digit in 1..5.
Ratings == {"1", "2", "3", "4", "5"}

\* C17 (rating fallback): for a text that contains no digit in 1..5,
\* _parse_digit returns 3.
C17_Fallback ==
    (parsed # NotParsed /\ \A i \in 1 .. Len(text) : text[i] \notin Ratings) =>
        parsed = [raised |-> FALSE, value |-> 3]

\* C18 (a parse fallback never aborts a job): once the provider has returned a
\* text for a question, the parse does not send the job to the except branch
\* (only the insert of the Response row can), and a text without a digit in
\* 1..5 is recorded with score 3 before the loop goes on.
C18_ParseNeverAborts ==
    [][ \A w \in Workers : pc[w] = "r_insert" =>
          /\ pc'[w] = "r_except" => exc'[w] = "database error"
          /\ (pc'[w] \in {"r_call", "r_score"}
                /\ \A i \in 1 .. Len(result[w].text) : result[w].text[i] \notin Ratings) =>
                 responses'[cur[w]][Len(responses'[cur[w]])].parsed_score = 3
      ]_vars

\* The conversation of the first k questions and the replies to them.
RECURSIVE Conversation(_, _, _)
Conversation(questions, log, k) ==
    IF k = 0 THEN << >>
    ELSE Conversation(questions, log, k - 1)
         \o << [role |-> "user", content |-> user_msg(questions[k])],
               [role |-> "assistant", content |-> log[k].reply] >>

\* C19 (longitudinal ordering): in longitudinal mode the k-th request of a job
\* carries the messages user Q1, assistant A1, ..., user Q(k-1), assistant
\* A(k-1), user Qk, with Ai the reply to the i-th request, and the Response
\* rows of a job have sequence_position 1, 2, ..., in the order they were
\* written.
C19_LongitudinalOrdering ==
    \A w \in Workers : longitudinal[w] =>
        /\ cur[w] # None =>
             LET questions == get_questions(test_cases[cur[w]].instrument) IN
             \A k \in 1 .. Len(calls[w]) :
                /\ calls[w][k].request.method = "complete_with_messages"
                /\ calls[w][k].request.system = system_prompt(test_cases[cur[w]])
                /\ calls[w][k].request.messages =
                      Conversation(questions, calls[w], k - 1)
                      \o << [role |-> "user", content |-> user_msg(questions[k])] >>
        /\ \A r \in Ids : \A i \in 1 .. Len(responses[r]) :
                responses[r][i].sequence_position = i

\* C19 witness: the third request of a longitudinal job was answered, after
\* the replies "4" and "x" to the first two, and two rows are written.
C19_Witness ==
    \E w \in Workers :
        /\ longitudinal[w] /\ cur[w] # None
        /\ Len(calls[w]) = 3 /\ calls[w][3].replied
        /\ calls[w][1].reply = << "4" >> /\ calls[w][2].reply = << "x" >>
        /\ Len(calls[w][3].request.messages) = 5
        /\ Len(responses[cur[w]]) = 2

\* C20 (independent mode is stateless): in independent mode the request for
\* question k is complete(prompt) with the prompt made of the job's system
\* prompt and question k, whatever was answered before, and every Response row
\* has sequence_position and context_tokens null.
C20_IndependentStateless ==
    \A w \in Workers : ~longitudinal[w] =>
        /\ cur[w] # None =>
             LET questions == get_questions(test_cases[cur[w]].instrument) IN
             \A k \in 1 .. Len(calls[w]) :
                calls[w][k].request =
                    [method |-> "complete", system |-> << >>, messages |-> << >>,
                     prompt |-> system_prompt(test_cases[cur[w]]) \o user_msg(questions[k])]
        /\ \A r \in Ids : \A i \in 1 .. Len(responses[r]) :
                /\ responses[r][i].sequence_position = None
                /\ responses[r][i].context_tokens = None

\* C20 witness: an independent job whose first question was answered "x" has
\* sent its second request and written its first row.
C20_Witness ==
    \E w \in Workers :
        /\ ~longitudinal[w] /\ cur[w] # None
        /\ Len(calls[w]) = 2
        /\ calls[w][1].reply = << "x" >>
        /\ Len(responses[cur[w]]) = 1

\* C21 (insertion order): in both modes the Response rows of the running
\* execution are written in the instrument's declared question order, row i
\* after call i returned its text and before call i + 1 is issued: at every
\* moment the rows carry the numbers of a prefix of the declared questions,
\* row i holds the text call i returned, and at most one call is ahead of
\* the rows.
C21_DeclaredOrder ==
    \A w \in Workers : cur[w] # None =>
        LET questions == get_questions(test_cases[cur[w]].instrument)
            rows == responses[cur[w]] IN
        /\ Len(rows) <= Len(questions)
        /\ Len(rows) <= Len(calls[w])
        /\ Len(calls[w]) <= Len(rows) + 1
        /\ \A i \in 1 .. Len(rows) :
            /\ rows[i].question_number = questions[i].number
            /\ calls[w][i].replied
            /\ rows[i].raw_response = calls[w][i].reply

\* C21 witness: a bfi job, whose declared numbers do not ascend, has written
\* the rows of its first two questions.
C21_Witness ==
    \E w \in Workers :
        /\ cur[w] # None
        /\ test_cases[cur[w]].instrument = "bfi"
        /\ Len(responses[cur[w]]) = 2
        /\ responses[cur[w]][1].question_number = 6
        /\ responses[cur[w]][2].question_number = 2

\* A worker that started its job and has not yet completed or failed it is
\* executing it: this is where its provider calls are made.
InNetworkCall(w) == pc[w] = "started"

\* C22 (no lock across a network call): while a worker executes a job it has
\* no uncommitted write and holds no row lock (the claim's UPDATE was
\* committed by start_test_case's execute), so no statement of another worker,
\* on any row, waits for it.
C22_NoLockAcrossCall ==
    \A w \in Workers : InNetworkCall(w) =>
        /\ undo[w] = {}
        /\ \A r \in Ids : xlock[r] # w
        /\ \A v \in Workers \ {w} : \A r \in Ids : Blocked(v, r) => xlock[r] # w

\* C22 witness: one worker executes its job while the other has claimed
\* another row.
C22_Witness ==
    /\ InNetworkCall("w1")
    /\ pc["w2"] = "claimed"
    /\ cur["w2"] # cur["w1"]
    /\ xlock[cur["w2"]] = "w2"

\* C23 (no lease expiry): a row a worker claimed leaves status locked only by
\* that worker's own start_test_case or fail_test_case; when the worker
\* abandons it (takes no further store step, as a crashed worker does) the row
\* stays locked and no later claim returns it.
C23_AbandonedStaysLocked ==
    [][\A r \in Ids :
          (test_cases[r].status = "locked" /\ test_cases'[r].status # "locked") =>
              \E w \in Workers :
                  /\ cur[w] = r /\ pc[w] = "claimed"
                  /\ pc'[w] \in {"started", "idle"}]_vars

\* The step with which an execution of run_test_case by w ends: it returns to
\* the loop over pending, or its exception leaves the runner.
RunEnds(w) ==
    /\ cur[w] # None
    /\ cur'[w] = None \/ (pc[w] # "r_raised" /\ pc'[w] = "r_raised")

\* C24 (a started job terminates): an execution of run_test_case ends with its
\* job in status complete, retry or failed.
C24_EndsInTerminalOrRetry ==
    [][ \A w \in Workers : RunEnds(w) =>
          test_cases'[cur[w]].status \in {"complete", "retry", "failed"} ]_vars

NumProfiles == 2

\* Table personality_profiles: the profile ids of a profile set, in the order
\* the SELECT returns them; "blank" is a profile set without profiles.
profiles_of(profile_set) ==
    IF profile_set = "19_strategic" THEN [i \in 1 .. NumProfiles |-> i] ELSE << >>

\* Table profile_sets: SELECT id FROM profile_sets WHERE name = ?
ProfileSets == {"19_strategic", "blank"}

\* The sequences of distinct elements of S, up to length 2.
Lists(S) ==
    { << >> } \cup { << a >> : a \in S }
              \cup { p \in S \X S : p[1] # p[2] }

\* The arguments create_experiment is called with (cli.cmd_create splits the
\* comma-separated options; the names are not checked before the call).
CreateArgs ==
    [ description : {"", "d"},
      profile_set : ProfileSets \cup {"nosuch"},
      input_systems : Lists({"ocean_direct", "narrative"}),
      instruments : Lists({"levenson", "bfi"}),
      providers : Lists({"deepseek", "gemini", "hal9000"}) ]

\* ExperimentConfig.total_test_cases(profile_count)
total_test_cases(config, profile_count) ==
    Len(config.input_systems) * Len(config.instruments) * Len(config.providers)
        * profile_count

\* One tuple of test_case_params, as the INSERT INTO test_cases stores it.
TestCaseRow(experiment_id, inp, inst, prov, profile) ==
    [experiment_id |-> experiment_id, profile_id |-> profile] @@
    NewRow([provider |-> prov, instrument |-> inst, input_system |-> inp])

\* Mutant of ForProfiles: the body of the provider loop run once, for the
\* first profile.
ForFirstProfile(experiment_id, inp, inst, prov, profiles) ==
    IF profiles = << >> THEN << >>
    ELSE << TestCaseRow(experiment_id, inp, inst, prov, profiles[1]) >>

\* "for profile in profiles": the rows of one (inp, inst, prov).
ForProfiles(experiment_id, inp, inst, prov, profiles) ==
    [i \in 1 .. Len(profiles) |-> TestCaseRow(experiment_id, inp, inst, prov, profiles[i])]

\* "for prov in providers", from the k-th provider on.
RECURSIVE ForProviders(_, _, _, _, _, _)
ForProviders(experiment_id, inp, inst, providers, profiles, k) ==
    IF k > Len(providers) THEN << >>
    ELSE ForProfiles(experiment_id, inp, inst, providers[k], profiles)
         \o ForProviders(experiment_id, inp, inst, providers, profiles, k + 1)

\* "for inst in instruments", from the k-th instrument on.
RECURSIVE ForInstruments(_, _, _, _, _, _)
ForInstruments(experiment_id, inp, instruments, providers, profiles, k) ==
    IF k > Len(instruments) THEN << >>
    ELSE ForProviders(experiment_id, inp, instruments[k], providers, profiles, 1)
         \o ForInstruments(experiment_id, inp, instruments, providers, profiles, k + 1)

\* "for inp in input_systems", from the k-th input system on: test_case_params.
RECURSIVE test_case_params(_, _, _, _, _, _)
test_case_params(experiment_id, input_systems, instruments, providers, profiles, k) ==
    IF k > Len(input_systems) THEN << >>
    ELSE ForInstruments(experiment_id, input_systems[k], instruments, providers, profiles, 1)
         \o test_case_params(experiment_id, input_systems, instruments, providers,
                             profiles, k + 1)

\* The elements of a sequence.
Range(s) == { s[i] : i \in DOMAIN s }

\* The message create_experiment raises with for these arguments before it
\* inserts the test cases, NULL when it reaches the INSERT: the description
\* and profile set checks, "WHERE name IN ()" for an empty list, the KeyError
\* of input_system_ids[inp] / instrument_ids[inst] / provider_ids[prov] for a
\* name the reference tables do not hold.
CreateError(a) ==
    IF a.description = "" THEN "Description is required"
    ELSE IF a.profile_set \notin ProfileSets THEN "Unknown profile set"
    ELSE IF << >> \in {a.input_systems, a.instruments, a.providers} THEN "syntax error"
    ELSE IF \/ ~(Range(a.input_systems) \subseteq KnownInputSystems)
            \/ ~(Range(a.instruments) \subseteq KnownInstruments)
            \/ ~(Range(a.providers) \subseteq KnownProviders) THEN "KeyError"
    ELSE NULL

\* create_experiment(name, description, profile_set, input_systems,
\* instruments, providers): the experiments row (committed by
\* insert_returning_id) and, with execute_many, the test cases. executemany
\* refuses an empty parameter list.
create_experiment ==
    /\ create_pc = "called"
    /\ LET a == create_args
           err == CreateError(a)
           experiment_id == Cardinality(experiments) + 1
           params == test_case_params(experiment_id, a.input_systems, a.instruments,
                                      a.providers, profiles_of(a.profile_set), 1) IN
        /\ experiments' =
              IF err \in {"Description is required", "Unknown profile set"}
              THEN experiments ELSE experiments \cup {experiment_id}
        /\ IF err = NULL /\ params # << >>
           THEN /\ inserted' = params
                /\ create_pc' = "returned"
           ELSE /\ inserted' = << >>
                /\ create_pc' = "raised"
    /\ UNCHANGED << store_vars, pc, cur, arg, attempts_read, runner_locals, loop_locals,
                    loop_history, parse_vars, limiter_vars, client_cache, create_args >>

\* A process that calls create_experiment once, on a database that holds one
\* experiment or none.
InitCreate ==
    /\ InitUnused
    /\ InitParse
    /\ InitLimiter
    /\ create_args \in CreateArgs
    /\ create_pc = "called"
    /\ experiments \in { {}, {1} }
    /\ inserted = << >>

NextCreate == create_experiment

SpecCreate == InitCreate /\ [][NextCreate]_vars

C27_PersistenceFailureKeepsStatus ==
    [][ \A w \in Workers : (ExceptStep(w) /\ exc[w] = "database error") =>
          test_cases'[cur[w]].status = test_cases[cur[w]].status ]_vars

\* C28 (insert_response frame): the step that calls insert_response adds at
\* most one row to responses, after the rows of its test case; it changes no
\* test case (status, attempts, lock fields, error message), no row lock, no
\* Result row, and no Response row that was there before.
C28_InsertResponseFrame ==
    [][ \A w \in Workers : (pc[w] = "r_insert" /\ pc'[w] # "r_insert") =>
          /\ test_cases' = test_cases
          /\ xlock' = xlock
          /\ results' = results
          /\ result_rows' = result_rows
          /\ \A r \in Ids :
                /\ IsPrefix(responses[r], responses'[r])
                /\ Len(responses'[r]) <= Len(responses[r]) + (IF r = cur[w] THEN 1 ELSE 0)
      ]_vars

\* C28 witness: a running phq3_a job has had its second row inserted after
\* its first and goes on to its third question.
C28_Witness ==
    \E w \in Workers :
        /\ cur[w] # None /\ pc[w] = "r_call" /\ qn[w] = 3
        /\ Len(responses[cur[w]]) = 2
        /\ test_cases[cur[w]].status = "running"
        /\ results[cur[w]] = 0

\* C29 (rate limits are per provider): a runner creates at most one client,
\* and with it one RateLimiter, per provider name, however many jobs of that
\* provider it runs; every provider call of a job goes through the client of
\* the job's provider; the clients of different providers are different
\* objects, so acquiring on one provider's limiter touches no other's.
C29_OneClientPerProvider ==
    \A w \in Workers :
        /\ \A p \in KnownProviders :
              /\ clients_created[w][p] <= 1
              /\ clients[w][p] # NoClient =>
                    clients[w][p] = [provider |-> p, serial |-> clients_created[w][p]]
        /\ \A p \in KnownProviders : \A q \in KnownProviders \ {p} :
              clients[w][p] # NoClient => clients[w][p] # clients[w][q]
        /\ cur[w] # None =>
              \A k \in 1 .. Len(calls[w]) :
                 /\ calls[w][k].client = clients[w][test_cases[cur[w]].provider]
                 /\ calls[w][k].client.provider = test_cases[cur[w]].provider
                 /\ calls[w][k].client.serial = 1

\* C29 witness: a runner that ran a claude job, with its provider calls, holds
\* one claude client and has fetched the deepseek client for its next job.
C29_Witness ==
    \E w \in Workers :
        /\ clients[w]["claude"] # NoClient
        /\ clients[w]["deepseek"] # NoClient
        /\ clients_created[w]["claude"] = 1
        /\ clients_created[w]["deepseek"] = 1
        /\ idx[w] = 2
        /\ responses[1] # << >>

\* C30 (attempts counts the runs): a job's attempts counter is the number of
\* times the job entered status running: every step that moves a job into
\* running adds one to its attempts, and no other step changes them.
C30_AttemptsCountRuns ==
    [][ \A r \in Ids :
          /\ (test_cases[r].status # "running" /\ test_cases'[r].status = "running") =>
                test_cases'[r].attempts = test_cases[r].attempts + 1
          /\ test_cases'[r].attempts # test_cases[r].attempts =>
                (test_cases[r].status # "running" /\ test_cases'[r].status = "running")
      ]_vars

\* C31 (attempts are bounded): under the protocol claim, start, complete or
\* fail, a job's attempts never exceed 3, and a job does not go round retry
\* and locked for ever: a job waiting in retry has failed fewer than 3 times,
\* a claimed or running job has room for the attempt it is in, so that the
\* failure of its third attempt leaves it failed.
C31_AttemptsBounded ==
    \A r \in Ids :
        /\ test_cases[r].attempts <= RetryLimit
        /\ test_cases[r].status = "retry" => test_cases[r].attempts < RetryLimit
        /\ test_cases[r].status = "locked" => test_cases[r].attempts < RetryLimit
        /\ test_cases[r].status = "pending" => test_cases[r].attempts = 0
        /\ test_cases[r].status = "running" => test_cases[r].attempts >= 1

\* C31 witness: a job whose third attempt failed with a retryable error is
\* failed with attempts 3, and no worker holds it.
C31_Witness ==
    \E r \in Ids :
        /\ test_cases[r].status = "failed"
        /\ test_cases[r].attempts = RetryLimit
        /\ test_cases[r].error_message = "timeout"
        /\ \A w \in Workers : cur[w] # r

\* ----------------------------------------------- db.py: get_experiment_status

\* SUM(CASE WHEN tc.status IN (...) THEN 1 ELSE 0 END) over the test cases of
\* the experiment.
CountStatus(statuses) == Cardinality({r \in Ids : test_cases[r].status \in statuses})

\* get_experiment_status(experiment_id): the counts of the row it returns, for
\* the one experiment all test cases belong to.
get_experiment_status ==
    [ total |-> Cardinality(Ids),
      complete |-> CountStatus({"complete"}),
      failed |-> CountStatus({"failed"}),
      pending |-> CountStatus({"pending", "retry"}),
      running |-> CountStatus({"locked", "running"}) ]

\* C32 (the status counts partition the jobs): complete + failed + pending +
\* running of get_experiment_status equals total.
C32_StatusCountsPartition ==
    LET status == get_experiment_status IN
    status.complete + status.failed + status.pending + status.running = status.total

\* C33 (parse precedence): when the text, trimmed and without "." and ",",
\* parses as an integer in 1..5, _parse_digit returns that integer; otherwise
\* it returns the first character of the cleaned text that is a digit in
\* 1..5, whatever other characters come before it.
C33_ParsePrecedence ==
    parsed # NotParsed =>
        LET cleaned == replace(replace(strip(text), "."), ",")
            exact == ToInt(cleaned)
            rated == {i \in 1 .. Len(cleaned) : cleaned[i] \in Ratings} IN
        IF ~exact.raised /\ exact.value \in 1 .. 5
        THEN parsed = [raised |-> FALSE, value |-> exact.value]
        ELSE rated # {} =>
                LET first == CHOOSE i \in rated : \A j \in rated : i <= j
                IN parsed = [raised |-> FALSE, value |-> DigitValue(cleaned[first])]

\* --------------------------------------- one runner, every job resolvable
\* One runner, in either mode, whose pending jobs all resolve, against a
\* provider that answers "4" or raises.
InitSequence ==
    /\ test_cases = [r \in Ids |-> NewRow([provider |-> "deepseek", instrument |-> "levenson",
                                           input_system |-> "ocean_direct"])]
    /\ InitTables
    /\ \E long \in BOOLEAN : longitudinal = [w \in Workers |-> long]
    /\ provider_texts = { << "4" >> }
    /\ InitParse
    /\ InitLimiter
    /\ NoCreate

SpecSequence == InitSequence /\ [][NextJob]_vars

\* The statuses run_test_case leaves a job in when it returns.
RunnerFinal == {"complete", ExceptStatus}

\* C34 (one worker runs strictly sequentially): a runner's provider calls are
\* made one at a time, the call for question i + 1 of a job only after the
\* Response row of question i is stored, and the first call of a job only
\* after every job before it in the runner's list has reached its final
\* status; a job after the current one has not been touched.
C34_StrictlySequential ==
    \A w \in Workers : cur[w] # None =>
        /\ Len(calls[w]) <= Len(responses[cur[w]]) + 1
        /\ pc[w] = "r_insert" => Len(calls[w]) = Len(responses[cur[w]]) + 1
        /\ pc[w] = "r_call" => Len(calls[w]) = Len(responses[cur[w]])
        /\ calls[w] # << >> =>
              /\ cur[w] = pending[w][idx[w]]
              /\ \A k \in 1 .. idx[w] - 1 :
                    test_cases[pending[w][k]].status \in RunnerFinal
              /\ \A k \in idx[w] + 1 .. Len(pending[w]) :
                    /\ test_cases[pending[w][k]].status = "pending"
                    /\ responses[pending[w][k]] = << >>

\* C34 witness: the runner completed its first job with all its rows and has
\* made the first call of its second job.
C34_Witness ==
    \E w \in Workers :
        /\ Len(pending[w]) >= 2 /\ idx[w] = 2 /\ cur[w] = pending[w][2]
        /\ test_cases[pending[w][1]].status = "complete"
        /\ Len(responses[pending[w][1]]) = NumQuestions
        /\ Len(calls[w]) = 1 /\ pc[w] = "r_insert"

\* C35 (the conversation is not shared across jobs): in longitudinal mode the
\* first request of every job carries one message, the user message of the
\* job's first question, whatever the runner's earlier jobs did.
C35_ConversationPerJob ==
    \A w \in Workers : (longitudinal[w] /\ cur[w] # None /\ calls[w] # << >>) =>
        LET questions == get_questions(test_cases[cur[w]].instrument) IN
        calls[w][1].request.messages =
            << [role |-> "user", content |-> user_msg(questions[1])] >>

\* C35 witness: a longitudinal runner whose first job failed after one answer
\* has sent the first request of its second job.
C35_Witness ==
    \E w \in Workers :
        /\ longitudinal[w]
        /\ Len(pending[w]) >= 2 /\ idx[w] = 2 /\ cur[w] = pending[w][2]
        /\ test_cases[pending[w][1]].status = ExceptStatus
        /\ Len(responses[pending[w][1]]) = 1
        /\ Len(calls[w]) = 1
        /\ calls[w][1].replied

\* ------------------------------ RateLimiter.acquire: waiting and cancelling

\* The tasks inside RateLimiter.acquire: waiting for the lock or asleep in it.
Waiting == {t \in Tasks : tpc[t] \in {"acquire", "sleeping"}}

\* Some task's asyncio.sleep has not run its time.
Asleep == \E t \in Tasks : tpc[t] = "sleeping" /\ wake_at[t] > now

\* The clock's bound leaves room for one more caller's wait.
ClockRoom == now + min_interval * (Cardinality(Waiting) + 1) <= MaxTime

\* Mutant of ExitLock: leaving the block without releasing.
ExitKeepsLock(t) == lock

\* "async with self._lock", __aexit__: the lock is released when the block is
\* left, by return or by an exception raised in it.
ExitLock(t) == IF lock = t THEN NULL ELSE lock

\* A task inside acquire is cancelled: CancelledError is raised at its await,
\* in the wait for the lock or in asyncio.sleep; line 48 is not reached.
cancel(t) ==
    /\ tpc[t] \in {"acquire", "sleeping"}
    /\ lock' = ExitLock(t)
    /\ tpc' = [tpc EXCEPT ![t] = "cancelled"]
    /\ UNCHANGED << store_vars, pc, cur, arg, attempts_read, runner_locals, loop_locals,
                    loop_history, parse_vars, create_vars, client_cache, now, last_request,
                    wake_at, start_time, latency, min_interval, call_log, last_grant, reads >>

\* Time passes during a sleep.
sleep_tick == Asleep /\ tick

\* Time passes while no task is inside acquire.
idle_tick == Waiting = {} /\ tick

\* A task calls complete while the clock leaves room for its wait.
enter(t) == ClockRoom /\ complete(t)

NextAcquire ==
    \/ sleep_tick
    \/ idle_tick
    \/ \E t \in Tasks :
        \/ enter(t)
        \/ acquire(t)
        \/ acquire_wake(t)
        \/ cancel(t)
        \/ call_api(t)
        \/ call_api_return(t)

\* The event loop runs every task that is ready, and sleeps run their time.
FairAcquire ==
    /\ WF_vars(sleep_tick)
    /\ \A t \in Tasks : WF_vars(acquire(t)) /\ WF_vars(acquire_wake(t))

SpecAcquire == InitClient /\ [][NextAcquire]_vars /\ FairAcquire

\* C36 (acquire neither deadlocks nor starves): every task that entered
\* acquire leaves it, and the lock is held only by a task asleep inside
\* acquire: it is free after each return and after a cancellation.
C36_AcquireReturns ==
    /\ [](lock # NULL => tpc[lock] = "sleeping")
    /\ \A t \in Tasks : (tpc[t] \in {"acquire", "sleeping"}) ~> (tpc[t] \notin {"acquire", "sleeping"})

\* C36 witness: a task was cancelled in its sleep, and a task that entered no
\* later than the clock now shows has returned from acquire with the lock free.
C36_Witness ==
    \E a \in Tasks : \E b \in Tasks \ {a} :
        /\ tpc[a] = "cancelled" /\ wake_at[a] > 0
        /\ tpc[b] = "granted"
        /\ call_log[b].entered <= call_log[a].entered
        /\ lock = NULL

\* C37 (create_experiment is all-or-nothing): a call of create_experiment that
\* raises for an empty description, an unknown profile set or a name absent
\* from its reference table leaves the store as it found it: no experiments
\* row and no test case added.
C37_RaiseLeavesStore ==
    [][(/\ create_pc = "called" /\ create_pc' = "raised"
        /\ CreateError(create_args) \in {"Description is required", "Unknown profile set",
                                         "KeyError"}) =>
          /\ experiments' = experiments
          /\ inserted' = inserted]_vars

\* C38 (a complete experiment has no open job): whenever the experiment's
\* status is complete, none of its test cases is pending, retry, locked or
\* running.
C38_CompleteHasNoOpenJob ==
    experiment.status = "complete" =>
        \A r \in Ids : test_cases[r].status \notin {"pending", "retry", "locked", "running"}

\* C39 (--limit N runs at most N jobs): for every N >= 0 the list run_pending
\* takes with limit N has at most N jobs (none for N = 0), and they are the
\* first N pending or retry jobs in (experiment_id, id) order.
C39_LimitBoundsRun ==
    \A n \in 0 .. NumJobs :
        LET all == Ascending({r \in Ids : IsPending(r)})
            taken == get_pending_test_cases(n) IN
        /\ Len(taken) <= n
        /\ taken = SubSeq(all, 1, Len(taken))
        /\ Len(taken) < n => taken = all

====
